---- MODULE Spec2Model ----
(***************************************************************************)
(* Model of the gem ordering engine of langwitch-dev (src/src/main.rs):    *)
(* GemCollection, its three derived indices, the frequency counter, the    *)
(* facet selector and the 200-round difficulty-ordering loop; and of the   *)
(* legacy engine (src/gems_old.rs), under LegacySpec.                      *)
(*                                                                         *)
(* Rust HashMap / HashSet iteration order is unspecified (RandomState), so *)
(* every place where the code's result depends on that order is a          *)
(* nondeterministic choice of the order.                                   *)
(***************************************************************************)
EXTENDS Integers, Sequences, FiniteSets, TLC

VARIABLES gems, sides, known_facets, gems_by_size_index, gems_by_facet_index,
          total_frequency_list, pc, round, last

vars == <<gems, sides, known_facets, gems_by_size_index, gems_by_facet_index,
          total_frequency_list, pc, round, last>>

----------------------------------------------------------------------------
(* Bounds of the model.                                                    *)

\* gems.json holds at most MaxGems gems (ids 0 .. n-1)
MaxGems == 3
\* selector inputs: number of gems, largest score of a table and of the baseline
NumSelGems == 2
MaxScore == 5
MaxBaseScore == 2

\* for _ in 0..200
RoundBudget == 200

\* the side texts of the gems of gems.json, by gem id
SideTexts == <<"s0", "s1", "s2", "s3", "s4">>
\* Gem::sides of gem g: side 0 with the gem's text
SidesOf(g) == (0 :> SideTexts[g + 1])

\* the facet names that occur in gems.json
Facets == {"x", "y", "z"}
\* the facet names of the selector's inputs; SelFacetNames lists them in a fixed order
SelFacetNames == <<"a", "b">>
SelFacets == {SelFacetNames[i] : i \in 1..Len(SelFacetNames)}

----------------------------------------------------------------------------
(* Helpers for maps (functions with an explicit key set) and orders.       *)

EmptyMap == << >>

\* HashMap::get(..) with a missing key read as the empty set
GetSet(m, k) == IF k \in DOMAIN m THEN m[k] ELSE {}

\* entry(k).or_insert(HashSet::new()).insert(v)
EntryInsert(m, k, v) ==
    [x \in DOMAIN m \cup {k} |-> IF x = k THEN GetSet(m, k) \cup {v} ELSE m[x]]

\* Iterator::min over a nonempty set of usize keys
Min(S) == CHOOSE x \in S : \A y \in S : x <= y

\* the orders in which a HashSet / HashMap may iterate over S
Orders(S) ==
    {s \in [1..Cardinality(S) -> S] : \A i, j \in 1..Cardinality(S) : s[i] = s[j] => i = j}

----------------------------------------------------------------------------
(* Frequency Counter: create_frequency_hashmap_from_facets_of_n2_gem_indices *)

\* (variant of BumpFacet: a facet seen again is not counted again)
BumpFacetOnce(fm, f) ==
    [x \in DOMAIN fm \cup {f} |-> IF x \in DOMAIN fm THEN fm[x] ELSE 1]

\* frequency_hashmap.entry(facet).and_modify(|e| *e += 1).or_insert(1)
BumpFacet(fm, f) ==
    [x \in DOMAIN fm \cup {f} |->
        IF x = f THEN (IF f \in DOMAIN fm THEN fm[f] + 1 ELSE 1) ELSE fm[x]]

\* inner loop: for facet in gem.unknown_facets.iter()
RECURSIVE CountFacets(_, _)
CountFacets(fm, fs) ==
    IF fs = {} THEN fm
    ELSE LET f == CHOOSE x \in fs : TRUE
         IN CountFacets(BumpFacet(fm, f), fs \ {f})

\* (variant of CountGems: only one gem of the set is counted)
CountGemsFirstOnly(G, fm, ids) ==
    IF ids = {} THEN fm ELSE CountFacets(fm, G[CHOOSE x \in ids : TRUE])

\* outer loop: for gem_index in gem_indices_for_n2.iter()
RECURSIVE CountGems(_, _, _)
CountGems(G, fm, ids) ==
    IF ids = {} THEN fm
    ELSE LET g == CHOOSE x \in ids : TRUE
         IN CountGems(G, CountFacets(fm, G[g]), ids \ {g})

create_frequency_hashmap_from_facets_of_n2_gem_indices(G, ids) == CountGems(G, EmptyMap, ids)

----------------------------------------------------------------------------
(* Index construction: index_all_gems_by_number                            *)

\* if gem.unknown_facets.len() > 0 { size_index.entry(len).or_insert(..).insert(number) }
IndexGemSize(S, G, g) ==
    IF Cardinality(G[g]) > 0 THEN EntryInsert(S, Cardinality(G[g]), g) ELSE S

\* for facet in gem.unknown_facets.iter() { facet_index.entry(facet).or_insert(..).insert(number) }
RECURSIVE IndexGemFacets(_, _, _)
IndexGemFacets(F, fs, g) ==
    IF fs = {} THEN F
    ELSE LET f == CHOOSE x \in fs : TRUE
         IN IndexGemFacets(EntryInsert(F, f, g), fs \ {f}, g)

\* for (number, gem) in self.gems.iter_mut(): both indices, as a record
RECURSIVE IndexLoop(_, _, _, _)
IndexLoop(G, S, F, ids) ==
    IF ids = {} THEN [size |-> S, facet |-> F]
    ELSE LET g == CHOOSE x \in ids : TRUE
         IN IndexLoop(G, IndexGemSize(S, G, g), IndexGemFacets(F, G[g], g), ids \ {g})

\* (variant of AllIds: the range stops one id early)
AllIdsShort(G) == 0..(Cardinality(DOMAIN G) - 2)

\* HashSet::from_iter(0..self.gems.len())
AllIds(G) == 0..(Cardinality(DOMAIN G) - 1)

----------------------------------------------------------------------------
(* Facet Selector: choose_max_n1_gem_facets_by_frequency_hashmap           *)

\* weight += *facet_weight for the facets present in the table
RECURSIVE SumScores(_, _)
SumScores(table, fs) ==
    IF fs = {} THEN 0
    ELSE LET f == CHOOSE x \in fs : TRUE
         IN (IF f \in DOMAIN table THEN table[f] ELSE 0) + SumScores(table, fs \ {f})

\* (variant of WeightGreater: >= in place of >)
WeightGreaterOrEqual(w, mw) == w[2] > 0 /\ w[1] * mw[2] >= mw[1] * w[2]

\* weight > max_weight, the f64 quotients sum/len compared as fractions
\* <<sum, len>>; len = 0 gives NaN, which compares false
WeightGreater(w, mw) == w[2] > 0 /\ w[1] * mw[2] > mw[1] * w[2]

\* the for loop over gem_indices_for_n1 in iteration order `order`:
\* keeps the facets of the first gem whose weight strictly exceeds max_weight
RECURSIVE ChooseLoop(_, _, _, _, _, _)
ChooseLoop(G, order, i, table, top, mw) ==
    IF i > Len(order) THEN top
    ELSE LET fs == G[order[i]]
             w  == <<SumScores(table, fs), Cardinality(fs)>>
         IN IF WeightGreater(w, mw) /\ Cardinality(fs) > 0
            THEN ChooseLoop(G, order, i + 1, table, fs, w)
            ELSE ChooseLoop(G, order, i + 1, table, top, mw)

ChoosePass(G, order, table) == ChooseLoop(G, order, 1, table, {}, <<0, 1>>)

\* (variant of the call: the fallback pass reads the given table again)
FallbackOnSameTable(G, order, table, baseline) ==
    LET p1 == ChooseLoop(G, order, 1, table, {}, <<0, 1>>)
    IN IF Cardinality(p1) # 0 THEN [returns |-> TRUE, facets |-> p1]
       ELSE [returns |-> FALSE, facets |-> {}]

\* The whole call. An empty first pass calls the function again with
\* total_frequency_list; an empty pass over total_frequency_list calls it
\* again with the same arguments, so that call never returns.
choose_max_n1_gem_facets_by_frequency_hashmap(G, order, table, baseline) ==
    LET p1 == ChoosePass(G, order, table)
        p2 == ChoosePass(G, order, baseline)
    IN IF Cardinality(p1) # 0 THEN [returns |-> TRUE, facets |-> p1]
       ELSE IF Cardinality(p2) # 0 THEN [returns |-> TRUE, facets |-> p2]
       ELSE [returns |-> FALSE, facets |-> {}]

----------------------------------------------------------------------------
(* One round of display_all_gems_in_order_of_difficulty, step by step.     *)

\* keys().filter(|key| gems_by_size_index.get(key).unwrap().len() > 0)
NonEmptyKeys(S) == {k \in DOMAIN S : Cardinality(S[k]) > 0}

\* non_empty_keys.clone().min().unwrap()
MinNumber(S) == Min(NonEmptyKeys(S))

\* non_empty_keys.clone().skip(1).min().unwrap(): `first` is the key the
\* HashMap's key iterator yields first, which skip(1) drops
MinNumber2(S, first) == Min(NonEmptyKeys(S) \ {first})

\* (variant of ImpactSet: Step D finds no gem)
ImpactSetNone(F, nominated) == {}

\* (variant of ImpactSet: only one nominated facet's gems are taken)
ImpactSetOfOneFacet(F, nominated) ==
    IF nominated = {} THEN {} ELSE F[CHOOSE f \in nominated : TRUE]

\* Step D: union of gems_by_facet_index.get(facet).unwrap() over the nominated facets
ImpactSet(F, nominated) == UNION {F[f] : f \in nominated}

\* (variant of StripFacets: the gem keeps its unknown facets)
StripFacetsNone(fs, nominated) == fs

\* (variant of StripFacets: union in place of difference)
StripFacetsUnion(fs, nominated) == fs \cup nominated

\* Step E, the unknown-facet set written back to an impacted gem
StripFacets(fs, nominated) == fs \ nominated

\* Step E, the bucket an impacted gem is inserted into: entry(len + 1)
RefileKey(len) == len + 1

\* Step E for one gem; the bucket lookup get_mut(&len).unwrap() was checked by the caller
RefileGem(S, g, len) ==
    EntryInsert([S EXCEPT ![len] = @ \ {g}], RefileKey(len), g)

\* Step E: for gem_index in top_gem_indices.iter(), in iteration order `order`.
\* ok = FALSE when get_mut(&gem.unknown_facets.len()).unwrap() finds no bucket:
\* the run aborts there, and the half-updated collection is dropped.
RECURSIVE StepE(_, _, _, _, _)
StepE(G, S, order, i, nominated) ==
    IF i > Len(order) THEN [ok |-> TRUE, gems |-> G, size |-> S]
    ELSE LET g   == order[i]
             len == Cardinality(G[g])
         IN IF len \notin DOMAIN S
            THEN [ok |-> FALSE, gems |-> EmptyMap, size |-> EmptyMap]
            ELSE StepE([G EXCEPT ![g] = StripFacets(@, nominated)],
                       RefileGem(S, g, len), order, i + 1, nominated)

\* (variant of RetainFacetIndex: every facet's entry is filtered, nominated or not)
RetainFacetIndexAll(F, nominated, impact) == [f \in DOMAIN F |-> F[f] \ impact]

\* (variant of RetainFacetIndex: the retain is left out)
RetainFacetIndexSkipped(F, nominated, impact) == F

\* facet_indices.retain(|gem_index| !top_gem_indices.contains(gem_index)) for
\* every nominated facet
RetainFacetIndex(F, nominated, impact) ==
    [f \in DOMAIN F |-> IF f \in nominated THEN F[f] \ impact ELSE F[f]]

----------------------------------------------------------------------------
(* State machine of main().                                                *)

\* the locals of the latest round (or selector call); taught is the history
\* of top_gem_facets over the completed rounds before that round
NoRound == [min_number |-> 0, min_number_2 |-> 0, frequency_hashmap |-> EmptyMap,
            gem_indices_for_n1 |-> << >>, top_gem_facets |-> {},
            top_gem_indices |-> {}, err |-> "none", taught |-> {}]

\* GemCollection::read_gems_from_file: ids 0..n-1 by enumerate(), empty indices
Init ==
    /\ \E n \in 0..MaxGems : gems \in [0..(n - 1) -> SUBSET Facets]
    /\ sides = [g \in DOMAIN gems |-> SidesOf(g)]
    /\ known_facets = {}
    /\ gems_by_size_index = EmptyMap
    /\ gems_by_facet_index = EmptyMap
    /\ total_frequency_list = EmptyMap
    /\ pc = "loaded"
    /\ round = 0
    /\ last = NoRound

\* (variant of index_all_gems_by_number: the baseline is counted into the
\* existing total_frequency_list instead of a fresh table)
index_all_gems_by_number_accumulating ==
    LET ix == IndexLoop(gems, gems_by_size_index, gems_by_facet_index, DOMAIN gems)
    IN /\ gems_by_size_index' = ix.size
       /\ gems_by_facet_index' = ix.facet
       /\ total_frequency_list' = CountGems(gems, total_frequency_list, AllIds(gems))

\* index_all_gems_by_number: the effect on the three derived structures
index_all_gems_by_number ==
    LET ix == IndexLoop(gems, gems_by_size_index, gems_by_facet_index, DOMAIN gems)
    IN /\ gems_by_size_index' = ix.size
       /\ gems_by_facet_index' = ix.facet
       /\ total_frequency_list' =
              create_frequency_hashmap_from_facets_of_n2_gem_indices(gems, AllIds(gems))

\* main: gem_collection.index_all_gems_by_number().await
IndexMain ==
    /\ pc = "loaded"
    /\ index_all_gems_by_number
    /\ pc' = "indexed"
    /\ UNCHANGED <<gems, sides, known_facets, round, last>>

\* display_all_gems_in_order_of_difficulty up to the for loop
DisplayStart ==
    /\ pc = "indexed"
    /\ known_facets' = {}
    /\ index_all_gems_by_number
    /\ pc' = "loop"
    /\ UNCHANGED <<gems, sides, round, last>>

\* a round that panics in Step A: min() or skip(1).min() is None
RoundPanicStepA ==
    /\ pc = "loop"
    /\ round < RoundBudget
    /\ Cardinality(NonEmptyKeys(gems_by_size_index)) < 2
    /\ pc' = "panic"
    /\ last' = [NoRound EXCEPT !.err =
                   IF NonEmptyKeys(gems_by_size_index) = {} THEN "min_none" ELSE "min_2_none"]
    /\ UNCHANGED <<gems, sides, known_facets, gems_by_size_index, gems_by_facet_index,
                   total_frequency_list, round>>

\* the outcomes of skip(1).min() over the orders in which the map may yield its keys
MinNumber2Outcomes(S) == {MinNumber2(S, first) : first \in NonEmptyKeys(S)}

\* the outcomes of Step E over the orders in which top_gem_indices may iterate
StepEOutcomes(G, S, impact, nominated) ==
    {StepE(G, S, orderE, 1, nominated) : orderE \in Orders(impact)}

\* a round whose Step A succeeds: it completes, or the selector never
\* returns, or an unwrap of Step D / Step E panics
Round ==
    /\ pc = "loop"
    /\ round < RoundBudget
    /\ Cardinality(NonEmptyKeys(gems_by_size_index)) >= 2
    /\ \E k2 \in MinNumber2Outcomes(gems_by_size_index) :
       LET k1   == MinNumber(gems_by_size_index)
           n1   == gems_by_size_index[k1]
           n2   == gems_by_size_index[k2]
           freq == create_frequency_hashmap_from_facets_of_n2_gem_indices(gems, n2)
       IN \E order1 \in Orders(n1) :
          LET sel == choose_max_n1_gem_facets_by_frequency_hashmap(
                         gems, order1, freq, total_frequency_list)
              loc == [NoRound EXCEPT !.min_number = k1, !.min_number_2 = k2,
                                     !.frequency_hashmap = freq,
                                     !.gem_indices_for_n1 = order1,
                                     !.top_gem_facets = sel.facets,
                                     !.taught = last.taught \cup last.top_gem_facets]
          IN IF ~sel.returns
             THEN /\ pc' = "diverge"
                  /\ last' = [loc EXCEPT !.err = "selector_recursion"]
                  /\ UNCHANGED <<gems, sides, known_facets, gems_by_size_index,
                                 gems_by_facet_index, total_frequency_list, round>>
             ELSE IF ~(sel.facets \subseteq DOMAIN gems_by_facet_index)
             THEN /\ pc' = "panic"
                  /\ last' = [loc EXCEPT !.err = "facet_index_none"]
                  /\ UNCHANGED <<gems, sides, known_facets, gems_by_size_index,
                                 gems_by_facet_index, total_frequency_list, round>>
             ELSE LET impact == ImpactSet(gems_by_facet_index, sel.facets)
                  IN \E e \in StepEOutcomes(gems, gems_by_size_index, impact, sel.facets) :
                        IF ~e.ok
                        THEN /\ pc' = "panic"
                             /\ last' = [loc EXCEPT !.top_gem_indices = impact,
                                                    !.err = "size_bucket_none"]
                             /\ UNCHANGED <<gems, sides, known_facets, gems_by_size_index,
                                            gems_by_facet_index, total_frequency_list,
                                            round>>
                        ELSE /\ gems' = e.gems
                             /\ gems_by_size_index' = e.size
                             /\ gems_by_facet_index' =
                                    RetainFacetIndex(gems_by_facet_index, sel.facets, impact)
                             /\ last' = [loc EXCEPT !.top_gem_indices = impact]
                             /\ round' = round + 1
                             /\ pc' = IF round + 1 = RoundBudget THEN "done" ELSE "loop"
                             /\ UNCHANGED <<sides, known_facets, total_frequency_list>>

Next == IndexMain \/ DisplayStart \/ RoundPanicStepA \/ Round

Spec == Init /\ [][Next]_vars

----------------------------------------------------------------------------
(* The selector on its own, over arbitrary candidate groups and tables.    *)

\* frequency tables over the facet names F with scores 1..max
Tables(F, max) == UNION {[D -> 1..max] : D \in SUBSET F}

SelInit ==
    /\ gems \in [0..(NumSelGems - 1) -> SUBSET SelFacets]
    /\ sides = [g \in DOMAIN gems |-> SidesOf(g)]
    /\ total_frequency_list \in Tables(SelFacets, MaxBaseScore)
    /\ known_facets = {}
    /\ gems_by_size_index = EmptyMap
    /\ gems_by_facet_index = EmptyMap
    /\ pc = "sel_call"
    /\ round = 0
    /\ last = NoRound

\* one call of choose_max_n1_gem_facets_by_frequency_hashmap
SelectorCall ==
    /\ pc = "sel_call"
    /\ \E cands \in SUBSET (DOMAIN gems) :
       \E table \in Tables(SelFacets, MaxScore) :
       \E order \in Orders(cands) :
          LET sel == choose_max_n1_gem_facets_by_frequency_hashmap(
                         gems, order, table, total_frequency_list)
          IN /\ last' = [NoRound EXCEPT !.frequency_hashmap = table,
                                        !.gem_indices_for_n1 = order,
                                        !.top_gem_facets = sel.facets,
                                        !.err = IF sel.returns THEN "none"
                                                ELSE "selector_recursion"]
             /\ pc' = IF sel.returns THEN "sel_returned" ELSE "sel_diverge"
    /\ UNCHANGED <<gems, sides, known_facets, gems_by_size_index, gems_by_facet_index,
                   total_frequency_list, round>>

SelNext == SelectorCall

SelSpec == SelInit /\ [][SelNext]_vars

----------------------------------------------------------------------------
(* The frequency counter on its own, over arbitrary sets of gem ids of an  *)
(* indexed collection.                                                     *)

\* one call of create_frequency_hashmap_from_facets_of_n2_gem_indices(&self, ids)
FrequencyCall ==
    /\ pc = "indexed"
    /\ \E ids \in SUBSET (DOMAIN gems) :
          last' = [NoRound EXCEPT
                      !.top_gem_indices = ids,
                      !.frequency_hashmap =
                          create_frequency_hashmap_from_facets_of_n2_gem_indices(gems, ids)]
    /\ pc' = "freq_returned"
    /\ UNCHANGED <<gems, sides, known_facets, gems_by_size_index, gems_by_facet_index,
                   total_frequency_list, round>>

FreqNext == IndexMain \/ FrequencyCall

FreqSpec == Init /\ [][FreqNext]_vars

----------------------------------------------------------------------------
(* The legacy engine (src/gems_old.rs): order_gems_by_difficulty over a    *)
(* Vec<Gem> whose unknown_facets is a HashMap<String, Facet>. Here gems[g] *)
(* is that map, from the key to the name field of the Facet stored under   *)
(* it; serde fills both from gems.json, only Gem::new makes them equal.    *)
(* known_facets is the key set of the legacy known_facets map.             *)

\* the keys and the Facet names that occur in the legacy gems.json
LegacyNames == {"x", "y"}

\* the unknown_facets maps a legacy gem may be loaded with
LegacyFacetMaps == UNION {[K -> LegacyNames] : K \in SUBSET LegacyNames}

\* the Facet names stored in an unknown_facets map
NamesOf(m) == {m[k] : k \in DOMAIN m}

\* the ids of a Vec<Gem>, in Vec order
RECURSIVE VecIds(_, _)
VecIds(G, i) ==
    IF i \notin DOMAIN G THEN << >> ELSE <<i>> \o VecIds(G, i + 1)

\* get_gems_with_n_unknown_facets: the gems with unknown_facets.len() == n,
\* in Vec order
get_gems_with_n_unknown_facets(G, n) ==
    SelectSeq(VecIds(G, 0), LAMBDA g : Cardinality(DOMAIN G[g]) = n)

\* get_facet_counts, inner loop: one bump per Facet stored in the gem
RECURSIVE CountNames(_, _, _)
CountNames(counts, m, keys) ==
    IF keys = {} THEN counts
    ELSE LET k == CHOOSE x \in keys : TRUE
         IN CountNames(BumpFacet(counts, m[k]), m, keys \ {k})

\* get_facet_counts, outer loop over the gems with n unknown facets
RECURSIVE CountVec(_, _, _)
CountVec(counts, G, ids) ==
    IF ids = << >> THEN counts
    ELSE CountVec(CountNames(counts, G[Head(ids)], DOMAIN G[Head(ids)]), G, Tail(ids))

get_facet_counts(G, n) == CountVec(EmptyMap, G, get_gems_with_n_unknown_facets(G, n))

\* facet_counts.get(name) as a sort key: None (0 here) sorts below every Some
CountKey(counts, name) == IF name \in DOMAIN counts THEN counts[name] ELSE 0

\* sort_by(|a, b| count_b.cmp(&count_a)): stable, descending by key
RECURSIVE StableSortDescending(_, _)
StableSortDescending(ids, key) ==
    IF ids = << >> THEN << >>
    ELSE LET top == CHOOSE i \in 1..Len(ids) :
                        /\ \A j \in 1..Len(ids) : key[ids[j]] <= key[ids[i]]
                        /\ \A j \in 1..(i - 1) : key[ids[j]] < key[ids[i]]
         IN <<ids[top]>> \o
            StableSortDescending(SubSeq(ids, 1, top - 1) \o SubSeq(ids, top + 1, Len(ids)),
                                 key)

\* the choices of unknown_facets.values().next() for the gems of ids: one
\* key per gem, the entry its HashMap yields first
FirstValueChoices(G, ids) ==
    {c \in [{ids[i] : i \in 1..Len(ids)} -> LegacyNames] :
        \A g \in DOMAIN c : c[g] \in DOMAIN G[g]}

\* get_gems_with_n_unknown_facets_sorted for n >= 1, with first[g] the key of
\* the entry of gem g that values().next() yields
get_gems_with_n_unknown_facets_sorted(G, n, first) ==
    LET ids    == get_gems_with_n_unknown_facets(G, n)
        counts == get_facet_counts(G, n + 1)
    IN StableSortDescending(ids,
           [g \in {ids[i] : i \in 1..Len(ids)} |-> CountKey(counts, G[g][first[g]])])

\* get_gems_with_n_unknown_facets_sorted_wrapper, the n it stops at: the
\* while loop raises n until the list for n is not empty; a map has at most
\* Cardinality(LegacyNames) keys, so past that count the list stays empty
\* for as long as n is raised and the loop does not return (0 here)
RECURSIVE WrapperLoop(_, _)
WrapperLoop(G, n) ==
    IF get_gems_with_n_unknown_facets(G, n) # << >> THEN n
    ELSE IF n > Cardinality(LegacyNames) THEN 0
    ELSE WrapperLoop(G, n + 1)

\* strip_known_facets: for every Facet of the gem whose name is a key of
\* known_facets, remove(&facet_name) drops the entry under that name
strip_known_facets(known, G) ==
    [g \in DOMAIN G |->
        [k \in DOMAIN G[g] \ (NamesOf(G[g]) \cap known) |-> G[g][k]]]

\* serde_json::from_str in the legacy main, then order_gems_by_difficulty up
\* to its loop
LegacyInit ==
    /\ \E n \in 0..MaxGems : gems \in [0..(n - 1) -> LegacyFacetMaps]
    /\ sides = [g \in DOMAIN gems |-> SidesOf(g)]
    /\ known_facets = {}
    /\ gems_by_size_index = EmptyMap
    /\ gems_by_facet_index = EmptyMap
    /\ total_frequency_list = EmptyMap
    /\ pc = "legacy_loop"
    /\ round = 0
    /\ last = NoRound

\* a legacy round whose wrapper call does not return
LegacyRoundDiverges ==
    /\ pc = "legacy_loop"
    /\ round < RoundBudget
    /\ WrapperLoop(gems, 1) = 0
    /\ pc' = "diverge"
    /\ last' = [NoRound EXCEPT !.err = "wrapper_loop"]
    /\ UNCHANGED <<gems, sides, known_facets, gems_by_size_index, gems_by_facet_index,
                   total_frequency_list, round>>

\* a legacy round: the top gem of the wrapper's list, its Facet names
\* inserted into known_facets, then strip_known_facets
LegacyRound ==
    /\ pc = "legacy_loop"
    /\ round < RoundBudget
    /\ WrapperLoop(gems, 1) # 0
    /\ LET n == WrapperLoop(gems, 1)
       IN \E first \in FirstValueChoices(gems, get_gems_with_n_unknown_facets(gems, n)) :
          LET sorted == get_gems_with_n_unknown_facets_sorted(gems, n, first)
              names  == NamesOf(gems[sorted[1]])
          IN /\ known_facets' = known_facets \cup names
             /\ gems' = strip_known_facets(known_facets \cup names, gems)
             /\ last' = [NoRound EXCEPT !.min_number = n,
                                        !.gem_indices_for_n1 = sorted,
                                        !.top_gem_facets = names,
                                        !.taught = known_facets]
    /\ round' = round + 1
    /\ pc' = IF round + 1 = RoundBudget THEN "legacy_done" ELSE "legacy_loop"
    /\ UNCHANGED <<sides, gems_by_size_index, gems_by_facet_index, total_frequency_list>>

\* strip_known_facets called on its own with any known_facets
StripCall ==
    /\ pc = "legacy_loop"
    /\ round = 0
    /\ \E known \in SUBSET LegacyNames :
          /\ known_facets' = known
          /\ gems' = strip_known_facets(known, gems)
    /\ pc' = "strip_returned"
    /\ UNCHANGED <<sides, gems_by_size_index, gems_by_facet_index, total_frequency_list,
                   round, last>>

LegacyNext == LegacyRoundDiverges \/ LegacyRound \/ StripCall

LegacySpec == LegacyInit /\ [][LegacyNext]_vars

----------------------------------------------------------------------------
(* Properties.                                                             *)

\* the points at which the derived indices are meant to be consistent:
\* after index construction and between rounds
Settled == pc \in {"indexed", "loop", "done"}

\* the buckets of a size index that hold gem g
BucketsOf(S, g) == {k \in DOMAIN S : g \in S[k]}

\* C1: after index construction and after Step E of every round, every gem
\* id is a member of exactly one bucket of gems_by_size_index, and the key
\* of that bucket is the gem's current number of unknown facets.
C1_SizeIndexInvariant ==
    Settled => \A g \in DOMAIN gems :
                   BucketsOf(gems_by_size_index, g) = {Cardinality(gems[g])}

\* C2: after index construction and after every round, g is in
\* gems_by_facet_index[f] exactly when f is in gems[g].unknown_facets.
C2_FacetIndexInverse ==
    Settled =>
        /\ \A f \in DOMAIN gems_by_facet_index :
               gems_by_facet_index[f] = {g \in DOMAIN gems : f \in gems[g]}
        /\ \A g \in DOMAIN gems : gems[g] \subseteq DOMAIN gems_by_facet_index

\* C2 witness: a round has stripped facets and a gem still lists a facet
C2_Witness ==
    /\ pc = "loop" /\ round >= 1
    /\ last.top_gem_indices # {}
    /\ \E g \in DOMAIN gems : gems[g] # {}

\* the three gems of the end-to-end scenario
ScenarioGems == (0 :> {"x", "y"}) @@ (1 :> {"x"}) @@ (2 :> {"y", "z"})

\* C3: from g0:{x,y}, g1:{x}, g2:{y,z}, the first round nominates {x},
\* impacts {g0,g1}, and leaves g1 = {} in bucket 0, g0 = {y} in bucket 1 and
\* g2 = {y,z} in bucket 2.
C3_EndToEndScenario ==
    [][(pc = "loop" /\ round = 0 /\ gems = ScenarioGems) =>
          /\ pc' = "loop"
          /\ last'.top_gem_facets = {"x"}
          /\ last'.top_gem_indices = {0, 1}
          /\ gems' = (0 :> {"y"}) @@ (1 :> {}) @@ (2 :> {"y", "z"})
          /\ BucketsOf(gems_by_size_index', 1) = {0}
          /\ BucketsOf(gems_by_size_index', 0) = {1}
          /\ BucketsOf(gems_by_size_index', 2) = {2}]_vars

\* C4: in every round that starts with at least two nonempty buckets, k1 is
\* the smallest nonempty key and k2 the smallest nonempty key other than k1.
C4_ClassSelection ==
    [][(pc = "loop" /\ round < RoundBudget /\ last' # last
          /\ Cardinality(NonEmptyKeys(gems_by_size_index)) >= 2) =>
          LET keys == NonEmptyKeys(gems_by_size_index)
              k1   == CHOOSE k \in keys : \A j \in keys : k <= j
          IN /\ last'.min_number = k1
             /\ last'.min_number_2 # k1
             /\ last'.min_number_2 \in keys
             /\ \A j \in keys \ {k1} : last'.min_number_2 <= j]_vars

\* C5: every call of the selector terminates; with no positive weight under
\* either table it returns a defined empty result.
C5_SelectorTerminates ==
    pc # "sel_diverge"

\* C6: a round that starts with fewer than two nonempty size buckets ends the
\* loop normally; it does not panic.
C6_EmptyCandidateGroupReported ==
    [][(pc = "loop" /\ round < RoundBudget
          /\ Cardinality(NonEmptyKeys(gems_by_size_index)) < 2) =>
          pc' # "panic"]_vars

(* The selector's contract, stated on the inputs and the result of a call  *)
(* (SelSpec): the candidates in iteration order, the table, the result.    *)

CallOrder == last.gem_indices_for_n1
CallTable == last.frequency_hashmap
CallResult == last.top_gem_facets
Called == pc \in {"sel_returned", "sel_diverge"}

\* sum of the table scores of the facets fs, a facet missing from the table scoring 0
RECURSIVE ScoreUpTo(_, _, _)
ScoreUpTo(table, fs, i) ==
    IF i = 0 THEN 0
    ELSE ScoreUpTo(table, fs, i - 1)
         + (IF SelFacetNames[i] \in fs /\ SelFacetNames[i] \in DOMAIN table
            THEN table[SelFacetNames[i]] ELSE 0)

Score(table, g) == ScoreUpTo(table, gems[g], Len(SelFacetNames))

\* weight(g) >= weight(h) for gems with unknown facets: score / number of facets
WeighsAtLeast(table, g, h) ==
    Score(table, g) * Cardinality(gems[h]) >= Score(table, h) * Cardinality(gems[g])

\* positions of the candidates that have unknown facets
Eligible == {i \in 1..Len(CallOrder) : gems[CallOrder[i]] # {}}

\* the first position, in iteration order, of a candidate of highest weight
IsBest(table, i) ==
    /\ i \in Eligible
    /\ \A j \in Eligible : WeighsAtLeast(table, CallOrder[i], CallOrder[j])
    /\ \A j \in Eligible : j < i => ~WeighsAtLeast(table, CallOrder[j], CallOrder[i])

\* the candidates and the table of the worked example: g1:{a,b}, g2:{a}
\* are the gems 0 and 1, the table is {a:5, b:1}
ExampleCall ==
    /\ gems = (0 :> {"a", "b"}) @@ (1 :> {"a"})
    /\ {CallOrder[i] : i \in 1..Len(CallOrder)} = {0, 1}
    /\ CallTable = [a |-> 5, b |-> 1]

\* C7 as stated: the selector returns the facet set of the candidate of
\* highest weight under the given table, the first one on ties, skipping
\* gems without unknown facets; in the example it returns {a}.
C7_SelectorCorrect_Original ==
    /\ (pc = "sel_returned" /\ Eligible # {}) =>
           \E i \in Eligible : IsBest(CallTable, i) /\ CallResult = gems[CallOrder[i]]
    /\ (Called /\ ExampleCall) => (pc = "sel_returned" /\ CallResult = {"a"})

\* C7 amended: when some candidate has a positive weight under the given
\* table, the selector returns the facet set of the candidate of highest
\* weight, the first one on ties; in the example it returns {a}.
C7_SelectorCorrect ==
    /\ (Called /\ \E i \in Eligible : Score(CallTable, CallOrder[i]) > 0) =>
           /\ pc = "sel_returned"
           /\ \E i \in Eligible : IsBest(CallTable, i) /\ CallResult = gems[CallOrder[i]]
    /\ (Called /\ ExampleCall) => (pc = "sel_returned" /\ CallResult = {"a"})

\* C7 witness: the worked example has been called and has returned
C7_Witness ==
    pc = "sel_returned" /\ ExampleCall /\ CallResult = {"a"}

\* no candidate has an unknown facet that the given table lists
AllAbsentFromTable ==
    \A i \in 1..Len(CallOrder) : gems[CallOrder[i]] \cap DOMAIN CallTable = {}

\* some candidate has an unknown facet that the baseline lists
SomeInBaseline ==
    \E i \in 1..Len(CallOrder) : gems[CallOrder[i]] \cap DOMAIN total_frequency_list # {}

\* C8: when every unknown facet of every candidate is absent from the given
\* table and some candidate has an unknown facet in the baseline, the
\* selector returns a nonempty set: the one the weighting picks under the
\* baseline.
C8_SelectorFallback ==
    (Called /\ AllAbsentFromTable /\ SomeInBaseline) =>
        /\ pc = "sel_returned"
        /\ CallResult # {}
        /\ \E i \in Eligible :
               IsBest(total_frequency_list, i) /\ CallResult = gems[CallOrder[i]]

\* C8 witness: a call that fell back to the baseline and returned
C8_Witness ==
    /\ pc = "sel_returned" /\ AllAbsentFromTable /\ SomeInBaseline
    /\ CallTable # EmptyMap
    /\ CallResult # {}

\* C9: every run of the loop ends after at most 200 rounds, by exhausting the
\* budget or by Step A's precondition failing; no run hangs or aborts inside
\* a round.
C9_LoopTerminates ==
    /\ round <= RoundBudget
    /\ pc # "diverge"
    /\ pc = "panic" => last.err \in {"min_none", "min_2_none"}

\* C10: a round leaves every gem with a subset of the unknown facets it had
\* before; no facet is ever added to a gem.
C10_MonotonicShrink ==
    [][/\ DOMAIN gems' = DOMAIN gems
       /\ \A g \in DOMAIN gems :
              /\ gems'[g] \subseteq gems[g]
              /\ Cardinality(gems'[g]) <= Cardinality(gems[g])]_vars

\* C10 witness: a round has completed and has stripped the nominated
\* facets from an impacted gem that still has other unknown facets
C10_Witness ==
    /\ pc = "loop" /\ round >= 1
    /\ \E g \in last.top_gem_indices :
           gems[g] # {} /\ gems[g] \cap last.top_gem_facets = {}

----------------------------------------------------------------------------
(* Properties of the rounds, continued.                                    *)

\* a step of the loop that got past Step A: the round completes, or it ends
\* the run in the selector or in Step E
PastStepA ==
    /\ pc = "loop"
    /\ \/ round' = round + 1
       \/ pc' = "diverge"
       \/ (pc' = "panic" /\ last'.err \in {"facet_index_none", "size_bucket_none"})

\* a step that is a completed round
RoundCompleted == pc = "loop" /\ round' = round + 1

\* the candidate (k1) group of the round that last' describes
CandidateGroup == {last'.gem_indices_for_n1[i] : i \in 1..Len(last'.gem_indices_for_n1)}

\* the supporting (k2) group of the round that last' describes
SupportingGroup == gems_by_size_index[last'.min_number_2]

\* C11: a gem with zero unknown facets stays in the gem map and is in no
\* round's candidate group, supporting group or impact set.
C11_ZeroFacetGemsOutOfSelection ==
    [][PastStepA =>
          \A g \in DOMAIN gems :
              gems[g] = {} =>
                  /\ g \in DOMAIN gems'
                  /\ g \notin CandidateGroup
                  /\ g \notin SupportingGroup
                  /\ g \notin last'.top_gem_indices]_vars

\* C12: with the iteration order of the candidate set fixed, the facet set a
\* round nominates does not depend on the iteration order of the size-index
\* keys (so two runs on the same input nominate the same sequence of sets).
C12_Determinism ==
    (pc = "loop" /\ Cardinality(NonEmptyKeys(gems_by_size_index)) >= 2) =>
        \A order1 \in Orders(gems_by_size_index[MinNumber(gems_by_size_index)]) :
        \A firstA, firstB \in NonEmptyKeys(gems_by_size_index) :
            choose_max_n1_gem_facets_by_frequency_hashmap(
                gems, order1,
                create_frequency_hashmap_from_facets_of_n2_gem_indices(
                    gems, gems_by_size_index[MinNumber2(gems_by_size_index, firstA)]),
                total_frequency_list)
            = choose_max_n1_gem_facets_by_frequency_hashmap(
                gems, order1,
                create_frequency_hashmap_from_facets_of_n2_gem_indices(
                    gems, gems_by_size_index[MinNumber2(gems_by_size_index, firstB)]),
                total_frequency_list)

\* C13: known_facets is the set of the facet names nominated in the rounds
\* completed so far: empty when the loop starts, each completed round adds
\* its nominated set, and no step removes a name.
C13_KnownFacetsTracksTaught ==
    [][/\ (pc = "indexed" /\ pc' = "loop") => known_facets' = {}
       /\ RoundCompleted => known_facets' = known_facets \cup last'.top_gem_facets
       /\ known_facets \subseteq known_facets']_vars

\* C14: on gems that no round has changed, a second run of
\* index_all_gems_by_number (the one display_all_gems_in_order_of_difficulty
\* makes after main's) leaves the three derived structures as the first run
\* left them.
C14_IndexIdempotent ==
    [][(pc = "indexed" /\ pc' = "loop") =>
          /\ gems_by_size_index' = gems_by_size_index
          /\ gems_by_facet_index' = gems_by_facet_index
          /\ total_frequency_list' = total_frequency_list]_vars

\* C14 witness: the second run has happened on a collection with facets
C14_Witness ==
    /\ pc = "loop" /\ round = 0
    /\ gems_by_size_index # EmptyMap
    /\ gems_by_facet_index # EmptyMap
    /\ total_frequency_list # EmptyMap

\* the first round of the scenario, with {g0,g2} as its supporting group
ScenarioFirstRound ==
    /\ pc = "loop" /\ round = 0 /\ gems = ScenarioGems
    /\ PastStepA
    /\ SupportingGroup = {0, 2}

\* C15 as stated: in the scenario the table computed in the first round from
\* the supporting group {g0,g2} is {x:1, y:1, z:1}.
C15_ScenarioTable_Original ==
    [][ScenarioFirstRound =>
          last'.frequency_hashmap = [x |-> 1, y |-> 1, z |-> 1]]_vars

\* C15 amended: in the scenario the table computed in the first round from
\* the supporting group {g0,g2} is {x:1, y:2, z:1}.
C15_ScenarioTable ==
    [][ScenarioFirstRound =>
          last'.frequency_hashmap = [x |-> 1, y |-> 2, z |-> 1]]_vars

\* C15 witness: the first round of the scenario has run with bucket 2 as its
\* supporting group
C15_Witness ==
    /\ pc = "loop" /\ round = 1
    /\ gems = (0 :> {"y"}) @@ (1 :> {}) @@ (2 :> {"y", "z"})
    /\ DOMAIN total_frequency_list = {"x", "y", "z"}
    /\ last.min_number = 1 /\ last.min_number_2 = 2
    /\ last.frequency_hashmap = [x |-> 1, y |-> 2, z |-> 1]

\* C16: whenever Step E processes an impacted gem, gems_by_size_index has a
\* bucket keyed by the gem's current unknown-facet count and that bucket
\* holds the gem's id.
C16_BucketRemovalDefined ==
    [][(PastStepA /\ last'.err \in {"none", "size_bucket_none"}) =>
          \A g \in last'.top_gem_indices :
              /\ Cardinality(gems[g]) \in DOMAIN gems_by_size_index
              /\ g \in gems_by_size_index[Cardinality(gems[g])]]_vars

\* the gems that list a facet of fs as unknown
GemsListing(fs) == {g \in DOMAIN gems : gems[g] \cap fs # {}}

\* C17: in every round the impact set is exactly the set of the gems that
\* list a nominated facet; after the round no gem lists a nominated facet
\* and gems_by_facet_index holds no gem under a nominated facet.
C17_ImpactComplete ==
    [][/\ (PastStepA /\ last'.err \in {"none", "size_bucket_none"}) =>
              last'.top_gem_indices = GemsListing(last'.top_gem_facets)
       /\ RoundCompleted =>
              /\ \A g \in DOMAIN gems' : gems'[g] \cap last'.top_gem_facets = {}
              /\ \A f \in last'.top_gem_facets :
                     GetSet(gems_by_facet_index', f) = {}]_vars

\* C17 witness: a completed round impacted two gems and left alone another
\* gem that has unknown facets
C17_Witness ==
    /\ pc = "loop" /\ round >= 1
    /\ last.top_gem_facets # {}
    /\ Cardinality(last.top_gem_indices) >= 2
    /\ \E g \in DOMAIN gems : g \notin last.top_gem_indices /\ gems[g] # {}

\* C18: a round leaves unchanged the set of gem ids, every gem's sides, the
\* unknown facets and the bucket membership of every gem outside the impact
\* set, the gems_by_facet_index entry of every facet not nominated, and
\* total_frequency_list.
C18_RoundFrame ==
    [][RoundCompleted =>
          /\ DOMAIN gems' = DOMAIN gems
          /\ sides' = sides
          /\ \A g \in DOMAIN gems \ last'.top_gem_indices :
                 /\ gems'[g] = gems[g]
                 /\ BucketsOf(gems_by_size_index', g) = BucketsOf(gems_by_size_index, g)
          /\ DOMAIN gems_by_facet_index' = DOMAIN gems_by_facet_index
          /\ \A f \in DOMAIN gems_by_facet_index \ last'.top_gem_facets :
                 gems_by_facet_index'[f] = gems_by_facet_index[f]
          /\ total_frequency_list' = total_frequency_list]_vars

\* C18 witness: a completed round left a gem with unknown facets outside its
\* impact set, and an impacted gem still lists a facet that was not nominated
C18_Witness ==
    /\ pc = "loop" /\ round >= 1
    /\ \E g \in DOMAIN gems : g \notin last.top_gem_indices /\ gems[g] # {}
    /\ \E g \in last.top_gem_indices : gems[g] # {}
    /\ \A g \in DOMAIN gems : sides[g] = SidesOf(g)

\* C19: after index_all_gems_by_number on a freshly loaded collection,
\* bucket c (c >= 1) is the set of the gems with c unknown facets, a gem
\* without unknown facets is in no bucket, gems_by_facet_index[f] is the set
\* of the gems listing f, and total_frequency_list[f] is the number of gems
\* of the collection listing f.
C19_IndexPostState ==
    pc = "indexed" =>
        /\ \A c \in (1..Cardinality(Facets)) \cup DOMAIN gems_by_size_index :
               GetSet(gems_by_size_index, c) =
                   {g \in DOMAIN gems : c >= 1 /\ Cardinality(gems[g]) = c}
        /\ \A g \in DOMAIN gems :
               gems[g] = {} => BucketsOf(gems_by_size_index, g) = {}
        /\ \A f \in Facets \cup DOMAIN gems_by_facet_index :
               GetSet(gems_by_facet_index, f) = GemsListing({f})
        /\ DOMAIN total_frequency_list = {f \in Facets : GemsListing({f}) # {}}
        /\ \A f \in DOMAIN total_frequency_list :
               total_frequency_list[f] = Cardinality(GemsListing({f}))

\* C19 witness: an indexed collection with a gem without unknown facets, a
\* bucket of two gems and a facet listed by two gems
C19_Witness ==
    /\ pc = "indexed"
    /\ \E g \in DOMAIN gems : gems[g] = {}
    /\ \E c \in DOMAIN gems_by_size_index : Cardinality(gems_by_size_index[c]) >= 2
    /\ \E f \in DOMAIN total_frequency_list : total_frequency_list[f] >= 2

\* C20: for every set S of gem ids the frequency counter returns a table
\* whose keys are the facets unknown in at least one gem of S and whose
\* values are the numbers of gems of S listing them; the call changes no gem
\* and no index.
C20_FrequencyCounter ==
    [][(pc = "indexed" /\ pc' = "freq_returned") =>
          LET S == last'.top_gem_indices
              t == last'.frequency_hashmap
          IN /\ DOMAIN t = {f \in Facets : \E g \in S : f \in gems[g]}
             /\ \A f \in DOMAIN t : t[f] = Cardinality({g \in S : f \in gems[g]})
             /\ gems' = gems /\ sides' = sides
             /\ gems_by_size_index' = gems_by_size_index
             /\ gems_by_facet_index' = gems_by_facet_index
             /\ total_frequency_list' = total_frequency_list]_vars

\* C20 witness: the counter has run over two gems out of three and has
\* counted a facet twice
C20_Witness ==
    /\ pc = "freq_returned"
    /\ Cardinality(last.top_gem_indices) = 2
    /\ Cardinality(DOMAIN gems) = 3
    /\ \E f \in DOMAIN last.frequency_hashmap : last.frequency_hashmap[f] = 2

\* C21: in every round the nominated facet set is nonempty, is the complete
\* current unknown-facet set of some gem filed in bucket k1, and has exactly
\* k1 facets.
C21_NominatedFromSmallestClass ==
    [][(PastStepA /\ last'.err \in {"none", "size_bucket_none"}) =>
          /\ last'.top_gem_facets # {}
          /\ \E g \in gems_by_size_index[last'.min_number] :
                 gems[g] = last'.top_gem_facets
          /\ Cardinality(last'.top_gem_facets) = last'.min_number]_vars

\* C22: across the rounds of a run the nominated facet sets are pairwise
\* disjoint: the set a round nominates holds no facet that a completed
\* earlier round nominated.
C22_NoFacetTaughtTwice ==
    last.top_gem_facets \cap last.taught = {}

\* C22 witness: a second round has nominated facets after a first round
\* that nominated facets too
C22_Witness ==
    /\ pc = "loop" /\ round >= 2
    /\ last.taught # {}
    /\ last.top_gem_facets # {}

\* the total number of unknown facets summed over all gems of G
RECURSIVE TotalUnknown(_)
TotalUnknown(G) ==
    IF DOMAIN G = {} THEN 0
    ELSE LET g == CHOOSE x \in DOMAIN G : TRUE
         IN Cardinality(G[g]) + TotalUnknown([h \in DOMAIN G \ {g} |-> G[h]])

\* C23: every completed round strictly decreases the total number of
\* unknown facets and turns at least one gem that had unknown facets into a
\* gem with none.
C23_ProgressPerRound ==
    [][RoundCompleted =>
          /\ TotalUnknown(gems') < TotalUnknown(gems)
          /\ \E g \in DOMAIN gems : gems[g] # {} /\ gems'[g] = {}]_vars

\* C23 witness: a round has completed that left one impacted gem without
\* unknown facets and another impacted gem with some
C23_Witness ==
    /\ pc = "loop" /\ round >= 1
    /\ \E g \in last.top_gem_indices : gems[g] = {}
    /\ \E g \in last.top_gem_indices : gems[g] # {}

\* a step that is a round of the legacy loop, completed or not
LegacyRoundStep == pc = "legacy_loop" /\ pc' \in {"legacy_loop", "legacy_done", "diverge"}

\* C24: the legacy wrapper terminates and returns a nonempty list of exactly
\* the gems that have n unknown facets, for the smallest n >= 1 that some
\* gem has; so every round of the legacy order_gems_by_difficulty obtains a
\* top gem and completes.
C24_LegacyWrapperReturns ==
    [][LegacyRoundStep =>
          LET list == last'.gem_indices_for_n1
              n    == last'.min_number
          IN /\ pc' # "diverge"
             /\ round' = round + 1
             /\ list # << >>
             /\ n >= 1
             /\ {list[i] : i \in 1..Len(list)} =
                    {g \in DOMAIN gems : Cardinality(DOMAIN gems[g]) = n}
             /\ \A g \in DOMAIN gems :
                    DOMAIN gems[g] # {} => n <= Cardinality(DOMAIN gems[g])]_vars

\* C25: strip_known_facets returns as many gems in the same order, each with
\* its sides unchanged and with the unknown facets of the input gem minus
\* those named in known_facets; so after every round of the legacy loop no
\* gem lists a facet that is in known_facets.
C25_LegacyStripping ==
    [][(pc = "legacy_loop" /\ pc' \in {"legacy_loop", "legacy_done", "strip_returned"}) =>
          /\ DOMAIN gems' = DOMAIN gems
          /\ sides' = sides
          /\ \A g \in DOMAIN gems :
                 /\ DOMAIN gems'[g] = {k \in DOMAIN gems[g] : gems[g][k] \notin known_facets'}
                 /\ \A k \in DOMAIN gems'[g] : gems'[g][k] = gems[g][k]
                 /\ NamesOf(gems'[g]) \cap known_facets' = {}]_vars

====
